---- MODULE Spec2Model ----
(***************************************************************************)
(* Obligation aggregation of AllObligationsView.tsx: the flattening of the *)
(* linked-project tree, the ancestry path, the sequential obligation       *)
(* fetches, the inclusion filter, and the effect that starts, supersedes   *)
(* and cancels pipeline runs.                                              *)
(*                                                                         *)
(* Strings that the code splits at '/' are sequences of their segments:    *)
(* "a/b" is <<"a","b">>, the empty string is <<"">> and undefined is <<>>. *)
(* split('/').at(-1) is then the one-segment string of the last element.   *)
(***************************************************************************)
EXTENDS Integers, Sequences, FiniteSets, TLC

\* ------------------------------------------------------------------ bounds
MaxRuns == 2
MaxPathProjects == 3

\* ----------------------------------------------------------- JS primitives
Undefined == <<>>
EmptyStr == <<"">>
Truthy(s) == s # Undefined /\ s # EmptyStr

\* s?.split('/').at(-1)
LastSegment(s) == IF s = Undefined THEN Undefined ELSE <<s[Len(s)]>>

\* p.id || p._links?.self.href.split('/').at(-1)
IdOrUndefined(p) == IF Truthy(p.id) THEN p.id ELSE LastSegment(p.self)

\* p.id || p._links?.self.href.split('/').at(-1) || ''
ProjectIdOf(p) == IF Truthy(IdOrUndefined(p)) THEN IdOrUndefined(p) ELSE EmptyStr

\* path.join(' -> '): the names with a separator token between neighbours
RECURSIVE JoinPath(_)
JoinPath(path) ==
    IF Len(path) = 0 THEN <<>>
    ELSE IF Len(path) = 1 THEN <<path[1]>>
    ELSE <<path[1], " -> ">> \o JoinPath(Tail(path))

\* number of name segments of a joined path
Segments(joined) == (Len(joined) + 1) \div 2

\* ------------------------------------------------------- buildProjectPath
\* new Map(allProjects.map(p => [id, p])): a later entry replaces an earlier one
MapHas(allProjects, key) == \E k \in 1..Len(allProjects) : ProjectIdOf(allProjects[k]) = key

MapGet(allProjects, key) ==
    LET ks == {k \in 1..Len(allProjects) : ProjectIdOf(allProjects[k]) = key}
    IN allProjects[CHOOSE k \in ks : \A j \in ks : j <= k]

\* the value of currentId that the closure of line 62 reads: line 59 has
\* already assigned undefined to it when the scan of lines 60-67 runs
ScannedId(currentId) == Undefined

\* lp.project === currentId || lp.project?.split('/').at(-1) === currentId
RefMatches(lp, scanned) == lp.project = scanned \/ LastSegment(lp.project) = scanned

\* lines 60-67: the first project of the list one of whose references matches
FindParent(allProjects, scanned) ==
    LET hits == {k \in 1..Len(allProjects) :
                    \E j \in 1..Len(allProjects[k].linkedProjects) :
                        RefMatches(allProjects[k].linkedProjects[j], scanned)}
    IN IF hits = {} THEN Undefined
       ELSE IdOrUndefined(allProjects[CHOOSE k \in hits : \A j \in hits : k <= j])

\* the while loop of lines 53-68; the loop state is currentId alone, so more
\* iterations than the list has entries means that it never ends
RECURSIVE PathLoop(_, _, _, _)
PathLoop(currentId, path, allProjects, fuel) ==
    IF ~Truthy(currentId) \/ ~MapHas(allProjects, currentId)
    THEN [path |-> path, diverges |-> FALSE]
    ELSE IF fuel = 0 THEN [path |-> path, diverges |-> TRUE]
    ELSE PathLoop(FindParent(allProjects, ScannedId(currentId)),
                  <<MapGet(allProjects, currentId).name>> \o path,
                  allProjects, fuel - 1)

buildProjectPath(projectId, allProjects) ==
    LET r == PathLoop(projectId, <<>>, allProjects, Len(allProjects) + 1)
    IN [path |-> JoinPath(r.path), diverges |-> r.diverges]

\* ----------------------------------------------------- extractAllProjects
\* variant: only the top level of the tree is listed
extractAllProjects_TopLevel(projects) == projects

\* lines 73-81
RECURSIVE extractAllProjects(_)
extractAllProjects(projects) ==
    IF Len(projects) = 0 THEN <<>>
    ELSE <<projects[1]>> \o extractAllProjects(projects[1].embedded)
                         \o extractAllProjects(Tail(projects))

\* lines 235-239: the root project, then the linked projects of the answer
allProjectsFlat(rootProject, linkedProjects) ==
    <<rootProject>> \o extractAllProjects(linkedProjects)

\* ------------------------------------------------------ backend snapshot
\* resource link of a project: ".../projects/<id>"
Href(id) == <<"api", "projects", id>>

Ref(id) == [project |-> Href(id)]

Proj(idv, selfv, name, refs, emb) ==
    [id |-> idv, self |-> selfv, name |-> name, linkedProjects |-> refs, embedded |-> emb]

\* linked projects of the snapshots: A carries an id field, B only a self
\* link, X has no resolvable identifier, M names a reference without project
ProjB == Proj(Undefined, Href("b"), "B", <<>>, <<>>)
ProjA == Proj(<<"a">>, Href("a"), "A", <<>>, <<>>)
ProjAB == Proj(<<"a">>, Href("a"), "A", <<Ref("b")>>, <<ProjB>>)
ProjX == Proj(Undefined, Undefined, "X", <<>>, <<>>)
ProjM == Proj(<<"a">>, Href("a"), "A", <<[project |-> Undefined]>>, <<>>)

TreeShapes == {"leaf", "one", "shared", "noid", "noref"}

\* GET projects/p1/linkedProjects?transitive=true&expand=true
TreeOf(shape) ==
    CASE shape = "leaf" -> <<>>
      [] shape = "one" -> <<ProjA>>
      [] shape = "shared" -> <<ProjAB, ProjB>>
      [] shape = "noid" -> <<ProjA, ProjX>>
      [] shape = "noref" -> <<ProjM>>

IdsOf(shape) ==
    CASE shape = "leaf" -> {"p1"}
      [] shape = "shared" -> {"p1", "a", "b"}
      [] OTHER -> {"p1", "a"}

RootRefs(shape) ==
    CASE shape = "leaf" -> <<>>
      [] shape = "shared" -> <<Ref("a"), Ref("b")>>
      [] shape = "noid" -> <<Ref("a"), Ref("x")>>
      [] OTHER -> <<Ref("a")>>

AOF == "ACKNOWLEDGED_OR_FULFILLED"
FAP == "FULFILLED_AND_PARENT_MUST_ALSO_FULFILL"
NoStatus == ""

Ob(title, st) == [title |-> title, status |-> st]

\* licenseObligations answers: title -> detail in the order of the answer
ObChoices == { <<Ob("Attribution", AOF)>>,
               <<Ob("Notice", NoStatus), Ob("Attribution", FAP)>>,
               <<Ob("Attribution", "OPEN")>> }

\* answers of the linked projects
LinkedChoices == { <<Ob("Attribution", AOF)>>,
                   <<Ob("Notice", NoStatus), Ob("Attribution", FAP)>> }

Snapshots ==
    UNION { { [shape |-> s, obs |-> o] :
                o \in {f \in [IdsOf(s) -> ObChoices] :
                          \A x \in IdsOf(s) \ {"p1"} : f[x] \in LinkedChoices} } :
            s \in TreeShapes }

RootIds == {<<"p1">>, <<"p2">>}

\* GET projects/{id}
BackendProject(b, pid) ==
    IF pid = <<"p1">> THEN Proj(<<"p1">>, Href("p1"), "P1", RootRefs(b.shape), <<>>)
    ELSE Proj(pid, Href(pid[1]), "P2", <<>>, <<>>)

BackendTree(b, pid) == IF pid = <<"p1">> THEN TreeOf(b.shape) ELSE <<>>

\* GET projects/{id}/licenseObligations
BackendObligations(b, pid) ==
    IF pid[1] \in DOMAIN b.obs THEN b.obs[pid[1]] ELSE <<Ob("Attribution", AOF)>>

\* ------------------------------------------------- aggregation (step 4)
\* variant: OPEN counts as fulfilled
fulfilledStatuses_WithOpen == {AOF, FAP, "OPEN"}

fulfilledStatuses == {AOF, FAP}

\* projectObligationsMap[id] || {}
ObsOf(obMap, id) == IF id \in DOMAIN obMap THEN obMap[id] ELSE <<>>

\* rootObs[title] of lines 286-287: the status, when the title is there
HasTitle(obs, title) == \E k \in 1..Len(obs) : obs[k].title = title

StatusOfTitle(obs, title) == obs[CHOOSE k \in 1..Len(obs) : obs[k].title = title].status

\* variant: the root project's map is not consulted
parentFulfillmentOk_NoRootCheck(detail, projectId, obMap) == TRUE

\* lines 284-291
parentFulfillmentOk(detail, projectId, obMap) ==
    IF detail.status = FAP
    THEN LET rootObs == ObsOf(obMap, projectId)
         IN HasTitle(rootObs, detail.title)
            /\ StatusOfTitle(rootObs, detail.title) \in fulfilledStatuses
    ELSE TRUE

\* lines 283 and 293
Included(detail, projectId, obMap) ==
    /\ detail.status # NoStatus
    /\ detail.status \in fulfilledStatuses
    /\ parentFulfillmentOk(detail, projectId, obMap)

Row(p, detail, path) ==
    [projectId |-> ProjectIdOf(p), projectName |-> p.name,
     obligationTitle |-> detail.title, status |-> detail.status, projectPath |-> path]

\* the inner forEach of lines 282-304 for one project, from entry k on
RECURSIVE RowsOfProject(_, _, _, _, _)
RowsOfProject(p, k, projectId, flat, obMap) ==
    LET obs == ObsOf(obMap, ProjectIdOf(p))
    IN IF k > Len(obs) THEN [rows |-> <<>>, diverges |-> FALSE]
       ELSE IF ~Included(obs[k], projectId, obMap) THEN RowsOfProject(p, k + 1, projectId, flat, obMap)
       ELSE LET bp == buildProjectPath(ProjectIdOf(p), flat)
                rest == RowsOfProject(p, k + 1, projectId, flat, obMap)
            IN IF bp.diverges THEN [rows |-> <<>>, diverges |-> TRUE]
               ELSE [rows |-> <<Row(p, obs[k], bp.path)>> \o rest.rows, diverges |-> rest.diverges]

\* variant: the rows of a later project are put before those of an earlier one
RECURSIVE Aggregate_Reversed(_, _, _, _)
Aggregate_Reversed(k, projectId, flat, obMap) ==
    IF k > Len(flat) THEN [rows |-> <<>>, diverges |-> FALSE]
    ELSE LET here == RowsOfProject(flat[k], 1, projectId, flat, obMap)
             rest == Aggregate_Reversed(k + 1, projectId, flat, obMap)
         IN IF here.diverges THEN [rows |-> <<>>, diverges |-> TRUE]
            ELSE [rows |-> rest.rows \o here.rows, diverges |-> rest.diverges]

\* the outer loop of lines 278-305, from position k of the flat list on
RECURSIVE Aggregate(_, _, _, _)
Aggregate(k, projectId, flat, obMap) ==
    IF k > Len(flat) THEN [rows |-> <<>>, diverges |-> FALSE]
    ELSE LET here == RowsOfProject(flat[k], 1, projectId, flat, obMap)
             rest == Aggregate(k + 1, projectId, flat, obMap)
         IN IF here.diverges THEN [rows |-> <<>>, diverges |-> TRUE]
            ELSE [rows |-> here.rows \o rest.rows, diverges |-> rest.diverges]

\* ------------------------------------------------------------ the state
VARIABLES
    status,                 \* session.status
    phase,                  \* "rendered" (effects not yet run), "mounted", "unmounted"
    projectId,              \* the projectId prop
    showProcessing,         \* useState(false), line 86
    aggregatedObligations,  \* useState([]), line 87
    cur,                    \* the most recently started pipeline run
    prev,                   \* what the run started before it did
    outstanding,            \* requests sent and not yet answered or aborted
    nRuns,                  \* pipeline runs started so far
    backend,                \* the backend snapshot
    bpAll, bpTarget, bpPath, bpCurrentId, bpPc, bpResult,  \* one call of buildProjectPath
    flRoot, flLinked, flFlat, flPc,                        \* one flattening, lines 235-239
    apStatus,               \* AuthProvider: useSession().status
    apPathname,             \* AuthProvider: usePathname()
    apOutput,               \* AuthProvider: what the last render returned
    apEffectDue,            \* AuthProvider: a dependency changed, the effect is to run
    apCallback,             \* callbackUrl of the last signIn call
    apSignIns               \* signIn calls so far

viewVars == <<status, phase, projectId, showProcessing, aggregatedObligations,
              cur, prev, outstanding, nRuns, backend>>
bpVars == <<bpAll, bpTarget, bpPath, bpCurrentId, bpPc, bpResult>>
flVars == <<flRoot, flLinked, flFlat, flPc>>
apVars == <<apStatus, apPathname, apOutput, apEffectDue, apCallback, apSignIns>>
vars == <<status, phase, projectId, showProcessing, aggregatedObligations,
          cur, prev, outstanding, nRuns, backend,
          bpAll, bpTarget, bpPath, bpCurrentId, bpPc, bpResult,
          flRoot, flLinked, flFlat, flPc,
          apStatus, apPathname, apOutput, apEffectDue, apCallback, apSignIns>>

Statuses == {"loading", "authenticated", "unauthenticated"}

\* positions at which the async function of lines 209-315 is suspended
RootPcs == {"rootFetch", "rootJson", "rootErrJson"}
TreePcs == {"treeFetch", "treeJson", "treeErrJson"}
ObPcs == {"obFetch", "obJson"}
LivePcs == RootPcs \cup TreePcs \cup ObPcs

NoRun ==
    [pc |-> "none", projectId |-> Undefined, aborted |-> FALSE, cancelledAt |-> "",
     rootStatus |-> "", treeStatus |-> "", flat |-> <<>>, i |-> 0, obMap |-> <<>>,
     failedAt |-> {}, calls |-> <<>>, msgs |-> 0, wrote |-> FALSE, outcome |-> "",
     rows |-> <<>>]

Call(kind, id, aborted) == [kind |-> kind, id |-> id, aborted |-> aborted]
Request(kind, id) == [kind |-> kind, id |-> id]

\* the step of the pipeline a suspension point belongs to
StageOf(pc) ==
    IF pc \in RootPcs THEN "root" ELSE IF pc \in TreePcs THEN "tree"
    ELSE IF pc \in ObPcs THEN "obligations" ELSE ""

\* what is kept of the run before the current one
Summary(run) ==
    [pc |-> run.pc, cancelledAt |-> run.cancelledAt, wrote |-> run.wrote, notified |-> run.msgs > 0,
     outcome |-> run.outcome,
     projectId |-> IF run.outcome = "success" THEN run.projectId ELSE Undefined,
     failedAt |-> IF run.outcome = "success" THEN run.failedAt ELSE {},
     rows |-> IF run.outcome = "success" THEN run.rows ELSE <<>>]

\* the JavaScript thread is inside a loop that never ends
Frozen == cur.pc = "hung" \/ prev.pc = "hung"

\* result of running the async function from one suspension point to the
\* next one or to its end
Res(run, out, atEnd, write, rows, notify) ==
    [run |-> run, out |-> out, atEnd |-> atEnd, write |-> write, rows |-> rows, notify |-> notify]

\* ------------------------------------------- pieces of the async function
\* variant: an AbortError is reported like any other error
IsAbortError_Never(error) == FALSE

\* line 309: the errors for which the outer catch sends no message
IsAbortError(error) == error = "AbortError"

\* lines 308-314: outer catch and finally
OuterCatch(run, error) ==
    LET n == IF IsAbortError(error) THEN 0 ELSE 1
    IN Res([run EXCEPT !.pc = "ended", !.msgs = @ + n,
                       !.outcome = IF IsAbortError(error) THEN "cancelled" ELSE "fatal"],
           {}, TRUE, FALSE, <<>>, n)

\* variant: the status of the answer is not looked at
StatusFails_Never(st) == FALSE

\* lines 218 and 229
StatusFails(st) == st # "OK"

\* lines 267-269: what the inner catch keeps from the outer one
InnerCatchSwallows(error) == TRUE

\* lines 272-307 and the finally: aggregate, hand over the rows
Finish(run) ==
    LET agg == Aggregate(1, run.projectId, run.flat, run.obMap)
    IN IF agg.diverges
       THEN Res([run EXCEPT !.pc = "hung"], {}, FALSE, FALSE, <<>>, 0)
       ELSE Res([run EXCEPT !.pc = "ended", !.wrote = TRUE, !.rows = agg.rows,
                            !.outcome = IF run.aborted THEN "cancelled" ELSE "success"],
                {}, TRUE, TRUE, agg.rows, 0)

\* variant: a project without identifier is not skipped
NextFetch_NoSkip(flat, k) == k

\* lines 247-249: the next position of the flat list that has an identifier
NextFetch(flat, k) ==
    LET c == {j \in k..Len(flat) : Truthy(ProjectIdOf(flat[j]))}
    IN IF c = {} THEN Len(flat) + 1 ELSE CHOOSE j \in c : \A x \in c : j <= x

\* line 253
ResetEntry(obMap, id) == [x \in DOMAIN obMap \cup {id} |-> IF x = id THEN <<>> ELSE obMap[x]]

\* lines 259-265
StoreEntries(obMap, id, entries) == [obMap EXCEPT ![id] = entries]

\* variant: the requests of all remaining positions are sent at once
SentAt_AllRemaining(flat, j) ==
    {Request("obligations", ProjectIdOf(flat[k])) :
        k \in {x \in j..Len(flat) : Truthy(ProjectIdOf(flat[x]))}}

\* line 256: the requests that the loop has sent when it suspends at position j
SentAt(flat, j) == {Request("obligations", ProjectIdOf(flat[j]))}

\* the loop of lines 247-270 from position k on, up to its next await
RECURSIVE ContinueLoop(_, _)
ContinueLoop(run, k) ==
    LET j == NextFetch(run.flat, k)
        id == ProjectIdOf(run.flat[j])
    IN IF j > Len(run.flat) THEN Finish(run)
       ELSE IF run.aborted
       THEN \* fetch with an aborted signal rejects at once
            IF InnerCatchSwallows("AbortError")
            THEN ContinueLoop([run EXCEPT !.i = j, !.obMap = ResetEntry(@, id),
                                          !.failedAt = @ \cup {j},
                                          !.calls = Append(@, Call("obligations", id, TRUE))],
                              j + 1)
            ELSE OuterCatch([run EXCEPT !.i = j, !.obMap = ResetEntry(@, id),
                                        !.calls = Append(@, Call("obligations", id, TRUE))],
                            "AbortError")
       ELSE Res([run EXCEPT !.pc = "obFetch", !.i = j, !.obMap = ResetEntry(@, id),
                            !.calls = Append(@, Call("obligations", id, FALSE))],
                SentAt(run.flat, j), FALSE, FALSE, <<>>, 0)

\* an error thrown inside the try of lines 255-266
InnerThrow(run, error) ==
    IF InnerCatchSwallows(error)
    THEN ContinueLoop([run EXCEPT !.failedAt = @ \cup {run.i}], run.i + 1)
    ELSE OuterCatch(run, error)

\* controller.abort() reaches the run at its suspension point: the pending
\* await rejects with AbortError, and the function runs on without another
\* suspension (every later fetch rejects at once)
Drain(run) ==
    LET r == [run EXCEPT !.aborted = TRUE, !.cancelledAt = StageOf(run.pc)]
    IN IF run.pc \in ObPcs THEN InnerThrow(r, "AbortError") ELSE OuterCatch(r, "AbortError")

\* --------------------------------------------------- the effect (204-321)
\* variant: the effect does not look at the session status
AuthGuardPasses_Always(st) == TRUE

\* line 205: the effect goes on only for an authenticated session
AuthGuardPasses(st) == st = "authenticated"

\* variant: the tree request goes out together with the root request
NewRun_TreeAtOnce(pid) ==
    [NoRun EXCEPT !.pc = "rootFetch", !.projectId = pid,
                  !.calls = <<Call("root", pid, FALSE), Call("tree", pid, FALSE)>>]

\* lines 206-216: the run starts with the request for the root project
NewRun(pid) ==
    [NoRun EXCEPT !.pc = "rootFetch", !.projectId = pid, !.calls = <<Call("root", pid, FALSE)>>]

\* variant: the rows of a run are added to what the buffer holds
WrittenRows_Appended(old, rows) == old \o rows

\* lines 242 and 307: allAggregated starts empty in every run and replaces
\* the state
WrittenRows(old, rows) == rows

\* React runs the cleanup of the old effect (line 317) and then the new
\* effect (lines 205-315 up to the first await) in one synchronous pass; the
\* rejected await of the old run resumes in the microtasks right after it,
\* before any answer of the network is handled.  State setters of an
\* unmounted component are dropped.
Rerun(newStatus, newPid, newPhase) ==
    LET oldLive == cur.pc \in LivePcs
        d == Drain(cur)
        start == newPhase = "mounted" /\ AuthGuardPasses(newStatus)
        applied == newPhase = "mounted"
        old == IF oldLive THEN [d.run EXCEPT !.wrote = d.write /\ applied] ELSE cur
    IN /\ ~Frozen
       /\ start => nRuns < MaxRuns
       /\ status' = newStatus
       /\ projectId' = newPid
       /\ phase' = newPhase
       /\ cur' = IF start THEN NewRun(newPid) ELSE old
       /\ prev' = IF start THEN Summary(old) ELSE prev
       /\ outstanding' = IF start THEN {Request("root", newPid)} ELSE {}
       /\ nRuns' = IF start THEN nRuns + 1 ELSE nRuns
       /\ showProcessing' = IF oldLive /\ d.atEnd /\ applied THEN FALSE
                            ELSE IF start THEN TRUE ELSE showProcessing
       /\ aggregatedObligations' =
              IF oldLive /\ d.write /\ applied THEN WrittenRows(aggregatedObligations, d.rows)
              ELSE aggregatedObligations
       /\ UNCHANGED <<backend, bpVars, flVars, apVars>>

\* first run of the effects after the first render
Mount == phase = "rendered" /\ Rerun(status, projectId, "mounted")

\* the session dependency changes (also to a new object of the same status)
SessionChange(s) == phase = "mounted" /\ Rerun(s, projectId, "mounted")

\* the projectId dependency changes
ProjectIdChange(p) == phase = "mounted" /\ p # projectId /\ Rerun(status, p, "mounted")

\* the view is deactivated: only the cleanup runs
Unmount == phase = "mounted" /\ Rerun(status, projectId, "unmounted")

\* the async function resumes after an answer and runs to its next await
Resume(res) ==
    /\ cur' = res.run
    /\ outstanding' = res.out
    /\ aggregatedObligations' = IF res.write THEN WrittenRows(aggregatedObligations, res.rows)
                                ELSE aggregatedObligations
    /\ showProcessing' = IF res.atEnd THEN FALSE ELSE showProcessing
    /\ UNCHANGED <<status, phase, projectId, prev, nRuns, backend, bpVars, flVars, apVars>>

FetchOutcomes == {"OK", "NOT_OK", "TypeError"}
BodyOutcomes == {"data", "SyntaxError"}

\* lines 213-220: the answer to GET projects/{id}
RootResponse(o) ==
    /\ ~Frozen /\ cur.pc = "rootFetch"
    /\ Request("root", cur.projectId) \in outstanding
    /\ Resume(IF o = "TypeError" THEN OuterCatch(cur, o)
              ELSE Res([cur EXCEPT !.rootStatus = o,
                                   !.pc = IF StatusFails(o) THEN "rootErrJson" ELSE "rootJson"],
                       {}, FALSE, FALSE, <<>>, 0))

\* line 219: throw await rootProjectResponse.json()
RootErrBody(o) ==
    /\ ~Frozen /\ cur.pc = "rootErrJson"
    /\ Resume(OuterCatch(cur, IF o = "data" THEN "Thrown" ELSE o))

\* lines 221-228: the root project is read and the tree is requested
RootBody(o) ==
    /\ ~Frozen /\ cur.pc = "rootJson"
    /\ Resume(IF o = "SyntaxError" THEN OuterCatch(cur, o)
              ELSE Res([cur EXCEPT !.pc = "treeFetch",
                                   !.flat = <<BackendProject(backend, cur.projectId)>>,
                                   !.calls = Append(@, Call("tree", cur.projectId, FALSE))],
                       {Request("tree", cur.projectId)}, FALSE, FALSE, <<>>, 0))

\* lines 224-231: the answer to GET projects/{id}/linkedProjects
TreeResponse(o) ==
    /\ ~Frozen /\ cur.pc = "treeFetch"
    /\ Request("tree", cur.projectId) \in outstanding
    /\ Resume(IF o = "TypeError" THEN OuterCatch(cur, o)
              ELSE Res([cur EXCEPT !.treeStatus = o,
                                   !.pc = IF StatusFails(o) THEN "treeErrJson" ELSE "treeJson"],
                       {}, FALSE, FALSE, <<>>, 0))

\* line 230: throw await linkedProjectsResponse.json()
TreeErrBody(o) ==
    /\ ~Frozen /\ cur.pc = "treeErrJson"
    /\ Resume(OuterCatch(cur, IF o = "data" THEN "Thrown" ELSE o))

\* lines 232-256: flatten, then the loop up to its first await
TreeBody(o) ==
    /\ ~Frozen /\ cur.pc = "treeJson"
    /\ Resume(IF o = "SyntaxError" THEN OuterCatch(cur, o)
              ELSE ContinueLoop([cur EXCEPT !.flat = allProjectsFlat(@[1],
                                                BackendTree(backend, cur.projectId))], 1))

\* lines 256-257: the answer to GET projects/{pId}/licenseObligations
ObResponse(o) ==
    /\ ~Frozen /\ cur.pc = "obFetch"
    /\ Request("obligations", ProjectIdOf(cur.flat[cur.i])) \in outstanding
    /\ Resume(IF o = "TypeError" THEN InnerThrow(cur, o)
              ELSE IF o = "OK" THEN Res([cur EXCEPT !.pc = "obJson"], {}, FALSE, FALSE, <<>>, 0)
              ELSE ContinueLoop([cur EXCEPT !.failedAt = @ \cup {cur.i}], cur.i + 1))

\* lines 258-265: the obligations are read and copied
ObBody(o) ==
    /\ ~Frozen /\ cur.pc = "obJson"
    /\ Resume(IF o = "SyntaxError" THEN InnerThrow(cur, o)
              ELSE LET id == ProjectIdOf(cur.flat[cur.i])
                   IN ContinueLoop([cur EXCEPT !.obMap = StoreEntries(@, id,
                                                   BackendObligations(backend, id))],
                                   cur.i + 1))

\* the parts of the state a specification does not use stay as they are here
ViewIdle ==
    /\ status = "loading" /\ phase = "rendered" /\ projectId = <<"p1">>
    /\ showProcessing = FALSE /\ aggregatedObligations = <<>>
    /\ cur = NoRun /\ prev = Summary(NoRun) /\ outstanding = {} /\ nRuns = 0
    /\ backend = [shape |-> "leaf", obs |-> [x \in {"p1"} |-> <<>>]]

PathIdle ==
    /\ bpAll = <<>> /\ bpTarget = Undefined /\ bpPath = <<>>
    /\ bpCurrentId = Undefined /\ bpPc = "off" /\ bpResult = <<>>

FlattenIdle == flRoot = <<>> /\ flLinked = <<>> /\ flFlat = <<>> /\ flPc = "off"

AuthIdle ==
    /\ apStatus = "loading" /\ apPathname = <<>> /\ apOutput = "off"
    /\ apEffectDue = FALSE /\ apCallback = Undefined /\ apSignIns = 0

Init ==
    /\ status \in Statuses
    /\ phase = "rendered"
    /\ projectId = <<"p1">>
    /\ showProcessing = FALSE
    /\ aggregatedObligations = <<>>
    /\ cur = NoRun
    /\ prev = Summary(NoRun)
    /\ outstanding = {}
    /\ nRuns = 0
    /\ backend \in Snapshots
    /\ PathIdle /\ FlattenIdle /\ AuthIdle

Next ==
    \/ Mount
    \/ \E s \in Statuses : SessionChange(s)
    \/ \E p \in RootIds : ProjectIdChange(p)
    \/ Unmount
    \/ \E o \in FetchOutcomes : RootResponse(o)
    \/ \E o \in BodyOutcomes : RootErrBody(o)
    \/ \E o \in BodyOutcomes : RootBody(o)
    \/ \E o \in FetchOutcomes : TreeResponse(o)
    \/ \E o \in BodyOutcomes : TreeErrBody(o)
    \/ \E o \in BodyOutcomes : TreeBody(o)
    \/ \E o \in FetchOutcomes : ObResponse(o)
    \/ \E o \in BodyOutcomes : ObBody(o)

Spec == Init /\ [][Next]_vars

\* ------------------------------------ buildProjectPath, one call in steps
PathIds == <<"r", "c", "g", "h", "k">>
PathNames == <<"R", "C", "G", "H", "K">>

\* a reference names its project by the bare id or by the resource link
RefTo(j) == IF j % 2 = 1 THEN [project |-> <<PathIds[j]>>] ELSE Ref(PathIds[j])

RECURSIVE RefsTo(_, _)
RefsTo(children, from) ==
    IF \A j \in children : j < from THEN <<>>
    ELSE IF from \in children THEN <<RefTo(from)>> \o RefsTo(children, from + 1)
    ELSE RefsTo(children, from + 1)

\* project k of a flat list: odd positions carry an id field, even ones only
\* the self link; noProject adds a reference that names no project
PathProject(k, children, noProject) ==
    Proj(IF k % 2 = 1 THEN <<PathIds[k]>> ELSE Undefined, Href(PathIds[k]), PathNames[k],
         RefsTo(children, 1) \o (IF noProject THEN <<[project |-> Undefined]>> ELSE <<>>),
         <<>>)

PathLists ==
    UNION { { [k \in 1..n |-> PathProject(k, ch[k], u = k)] :
                ch \in {f \in [1..n -> SUBSET (1..n)] : \A k \in 1..n : k \notin f[k]},
                u \in 0..n } :
            n \in 1..MaxPathProjects }

PathTargets(all) == {ProjectIdOf(all[k]) : k \in 1..Len(all)} \cup {<<"zz">>}

InitPath ==
    /\ ViewIdle /\ FlattenIdle /\ AuthIdle
    /\ bpAll \in PathLists
    /\ bpTarget \in PathTargets(bpAll)
    /\ bpPath = <<>>
    /\ bpCurrentId = bpTarget
    /\ bpPc = "loop"
    /\ bpResult = <<>>

\* lines 53-67: one iteration of the while loop.  The loop state is
\* currentId alone: once the path is longer than the list an identifier has
\* come back and the loop goes on for ever ("spin")
BPIterate ==
    /\ bpPc = "loop"
    /\ Truthy(bpCurrentId) /\ MapHas(bpAll, bpCurrentId)
    /\ bpPath' = <<MapGet(bpAll, bpCurrentId).name>> \o bpPath
    /\ bpCurrentId' = FindParent(bpAll, ScannedId(bpCurrentId))
    /\ bpPc' = IF Len(bpPath') > Len(bpAll) THEN "spin" ELSE "loop"
    /\ UNCHANGED <<bpAll, bpTarget, bpResult, viewVars, flVars, apVars>>

\* lines 53, 55 and 70: the loop ends and the path is joined
BPReturn ==
    /\ bpPc = "loop"
    /\ ~(Truthy(bpCurrentId) /\ MapHas(bpAll, bpCurrentId))
    /\ bpResult' = JoinPath(bpPath)
    /\ bpPc' = "done"
    /\ UNCHANGED <<bpAll, bpTarget, bpPath, bpCurrentId, viewVars, flVars, apVars>>

NextPath == BPIterate \/ BPReturn

SpecPath == InitPath /\ [][NextPath]_vars

\* ------------------------------------------ the flattening, one call
MaxTreeNodes == 4

FlatLabels == <<"a", "b">>
FlatNames == <<"A", "B">>

\* the ordered forests of n nodes in all; a node is a project whose nested
\* linked projects are its embedded list
RECURSIVE Forests(_)
Forests(n) ==
    IF n = 0 THEN {<<>>}
    ELSE UNION { { <<Proj(<<FlatLabels[l]>>, Href(FlatLabels[l]), FlatNames[l], <<>>, sub)>> \o rest :
                     l \in 1..2, sub \in Forests(k - 1), rest \in Forests(n - k) } :
                 k \in 1..n }

InitFlatten ==
    /\ ViewIdle /\ PathIdle /\ AuthIdle
    /\ flRoot = Proj(<<"p1">>, Href("p1"), "P1", <<>>, <<>>)
    /\ flLinked \in UNION {Forests(n) : n \in 0..MaxTreeNodes}
    /\ flFlat = <<>>
    /\ flPc = "start"

\* lines 235-239
Flatten ==
    /\ flPc = "start"
    /\ flFlat' = allProjectsFlat(flRoot, flLinked)
    /\ flPc' = "done"
    /\ UNCHANGED <<flRoot, flLinked, viewVars, bpVars, apVars>>

NextFlatten == Flatten

SpecFlatten == InitFlatten /\ [][NextFlatten]_vars

\* --------------------------------------------------------- AuthProvider
MaxSignIns == 3

\* values of usePathname()
Pathnames == {<<"projects">>, <<"projects", "p1">>, <<"requests">>}

\* variant: the children are returned for every status but 'loading'
Render_ChildrenUnlessLoading(st) == IF st = "loading" THEN "spinner" ELSE "children"

\* AuthProvider.tsx lines 21-34: what the component returns
Render(st) ==
    IF st = "loading" THEN "spinner"
    ELSE IF st = "authenticated" THEN "children"
    ELSE "null"

\* the first render; the effect of lines 14-19 is still to run
InitAuth ==
    /\ ViewIdle /\ PathIdle /\ FlattenIdle
    /\ apStatus \in Statuses
    /\ apPathname \in Pathnames
    /\ apOutput = Render(apStatus)
    /\ apEffectDue = TRUE
    /\ apCallback = Undefined
    /\ apSignIns = 0

\* line 11: useSession() delivers another status, the component renders again
APSessionChange(s) ==
    /\ apSignIns < MaxSignIns
    /\ s # apStatus
    /\ apStatus' = s
    /\ apOutput' = Render(s)
    /\ apEffectDue' = TRUE
    /\ UNCHANGED <<apPathname, apCallback, apSignIns, viewVars, bpVars, flVars>>

\* line 12: usePathname() delivers another path, the component renders again
APNavigate(p) ==
    /\ apSignIns < MaxSignIns
    /\ p # apPathname
    /\ apPathname' = p
    /\ apOutput' = Render(apStatus)
    /\ apEffectDue' = TRUE
    /\ UNCHANGED <<apStatus, apCallback, apSignIns, viewVars, bpVars, flVars>>

\* lines 14-19: the effect runs after a render in which status or pathname
\* changed
APEffect ==
    /\ apEffectDue
    /\ apEffectDue' = FALSE
    /\ IF apStatus = "unauthenticated"
       THEN apCallback' = apPathname /\ apSignIns' = apSignIns + 1
       ELSE UNCHANGED <<apCallback, apSignIns>>
    /\ UNCHANGED <<apStatus, apPathname, apOutput, viewVars, bpVars, flVars>>

NextAuth ==
    \/ \E s \in Statuses : APSessionChange(s)
    \/ \E p \in Pathnames : APNavigate(p)
    \/ APEffect

SpecAuth == InitAuth /\ [][NextAuth]_vars

\* ================================================================ claims
Titles == {"Attribution", "Notice"}

\* positions of the result buffer that hold the row of a (project, title) pair
BufferRowsFor(id, title) ==
    {k \in 1..Len(aggregatedObligations) :
        /\ aggregatedObligations[k].projectId = id
        /\ aggregatedObligations[k].obligationTitle = title}

\* the run that was started last has handed its rows to the buffer
CurWrote == cur.pc = "ended" /\ cur.wrote

\* C1: a pipeline run that has been cancelled never writes the result buffer
\* afterwards, at whichever suspension point the cancellation landed (root
\* fetch, tree fetch or a licenseObligations fetch).
C1_CancelledRunNeverWrites ==
    /\ cur.cancelledAt # "" => ~cur.wrote
    /\ prev.cancelledAt # "" => ~prev.wrote

\* C2: the processing flag is true in every state in which a non-cancelled
\* pipeline run is in flight, also when that run superseded an earlier one.
C2_BusyWhileRunInFlight == cur.pc \in LivePcs => showProcessing = TRUE

\* C4: after a successful aggregation pass the buffer holds exactly one row
\* per (project id, obligation title) pair that passes the inclusion filter.
C4_ExactlyOneRowPerPassingPair ==
    cur.outcome = "success" =>
        /\ \A k \in 1..Len(cur.flat) : \A t \in Titles :
              LET id == ProjectIdOf(cur.flat[k])
                  obs == ObsOf(cur.obMap, id)
                  passing == \E j \in 1..Len(obs) :
                                obs[j].title = t /\ Included(obs[j], cur.projectId, cur.obMap)
              IN Cardinality(BufferRowsFor(id, t)) = IF passing THEN 1 ELSE 0
        /\ \A r \in 1..Len(aggregatedObligations) :
              \E k \in 1..Len(cur.flat) :
                  aggregatedObligations[r].projectId = ProjectIdOf(cur.flat[k])

\* the root project's fetched map has a fulfilled entry of that title
RootHasFulfilled(run, title) ==
    LET rootObs == ObsOf(run.obMap, run.projectId)
    IN \E j \in 1..Len(rootObs) :
          rootObs[j].title = title /\ rootObs[j].status \in {AOF, FAP}

\* C5: an obligation with status FULFILLED_AND_PARENT_MUST_ALSO_FULFILL of any
\* project of the flat list is among the aggregated rows if and only if the
\* root project's fetched map has an entry of the same title whose status is
\* one of the two fulfilled values; rows of status ACKNOWLEDGED_OR_FULFILLED
\* do not depend on the root (root Attribution fulfilled: both rows, root
\* Attribution OPEN: neither the root's row nor the child's).
C5_ParentMustAlsoFulfill ==
    CurWrote =>
        \A k \in 1..Len(cur.flat) :
            LET id == ProjectIdOf(cur.flat[k])
                obs == ObsOf(cur.obMap, id)
            IN \A j \in 1..Len(obs) :
                  /\ obs[j].status = FAP =>
                        (BufferRowsFor(id, obs[j].title) # {} <=> RootHasFulfilled(cur, obs[j].title))
                  /\ obs[j].status = AOF => BufferRowsFor(id, obs[j].title) # {}
                  /\ obs[j].status \notin {AOF, FAP} => BufferRowsFor(id, obs[j].title) = {}

\* root Attribution acknowledged, child Attribution fulfilled-and-parent:
\* both rows are in the buffer
C5_Witness ==
    /\ cur.outcome = "success"
    /\ Len(cur.flat) >= 2
    /\ ObsOf(cur.obMap, <<"p1">>) = <<Ob("Attribution", AOF)>>
    /\ \E j \in 1..Len(ObsOf(cur.obMap, <<"a">>)) :
          ObsOf(cur.obMap, <<"a">>)[j] = Ob("Attribution", FAP)
    /\ BufferRowsFor(<<"p1">>, "Attribution") # {}
    /\ BufferRowsFor(<<"a">>, "Attribution") # {}

\* C6: every row ever placed in the result buffer has status
\* ACKNOWLEDGED_OR_FULFILLED or FULFILLED_AND_PARENT_MUST_ALSO_FULFILL.
C6_OnlyFulfilledRows ==
    \A k \in 1..Len(aggregatedObligations) :
        aggregatedObligations[k].status \in {AOF, FAP}

\* rows were written while obligations of other statuses had been fetched
C6_Witness ==
    /\ CurWrote
    /\ Len(aggregatedObligations) > 0
    /\ \E id \in DOMAIN cur.obMap : \E j \in 1..Len(cur.obMap[id]) :
          cur.obMap[id][j].status = "OPEN"
    /\ \E id \in DOMAIN cur.obMap : \E j \in 1..Len(cur.obMap[id]) :
          cur.obMap[id][j].status = NoStatus

\* the identifiers of the flat list for which the loop issues a request
FetchIds(flat) ==
    LET F[k \in 0..Len(flat)] ==
            IF k = 0 THEN <<>>
            ELSE IF Truthy(ProjectIdOf(flat[k])) THEN Append(F[k - 1], ProjectIdOf(flat[k]))
            ELSE F[k - 1]
    IN F[Len(flat)]

ObligationCalls(run) == SelectSeq(run.calls, LAMBDA c : c.kind = "obligations")

\* C7: if the licenseObligations fetch of one project returns a non-success
\* status or fails, that project contributes no row, no error message is sent,
\* the fetches of the remaining projects are still issued, and the run
\* completes by writing the aggregated rows.
C7_FailedProjectContributesNothing ==
    (cur.pc = "ended" /\ ~cur.aborted /\ cur.failedAt # {}) =>
        /\ \A k \in cur.failedAt : \A t \in Titles :
              BufferRowsFor(ProjectIdOf(cur.flat[k]), t) = {}
        /\ cur.msgs = 0
        /\ Len(ObligationCalls(cur)) = Len(FetchIds(cur.flat))
        /\ cur.wrote

\* C8 as stated: after a non-success status of the root or tree fetch the run
\* issues no later request, sends exactly one error message and does not
\* write the buffer.
C8_FatalStatusOneMessage ==
    /\ cur.rootStatus = "NOT_OK" =>
          /\ Len(cur.calls) = 1
          /\ ~cur.wrote
          /\ cur.pc = "ended" => cur.msgs = 1
    /\ cur.treeStatus = "NOT_OK" =>
          /\ Len(cur.calls) = 2
          /\ ~cur.wrote
          /\ cur.pc = "ended" => cur.msgs = 1

\* C8 (amended): after a non-success status of the root or tree fetch the run
\* issues no later request and does not write the buffer; it sends exactly one
\* error message, unless it is cancelled while the error body is being read,
\* in which case it sends none.
C8_FatalStatusOneMessageUnlessCancelled ==
    /\ cur.rootStatus = "NOT_OK" =>
          /\ Len(cur.calls) = 1
          /\ ~cur.wrote
          /\ cur.pc = "ended" => cur.msgs = IF cur.cancelledAt = "" THEN 1 ELSE 0
    /\ cur.treeStatus = "NOT_OK" =>
          /\ Len(cur.calls) = 2
          /\ ~cur.wrote
          /\ cur.pc = "ended" => cur.msgs = IF cur.cancelledAt = "" THEN 1 ELSE 0

\* a run ended by the non-success status of its tree fetch, rows of an
\* earlier run still in the buffer
C8_Witness ==
    /\ cur.pc = "ended" /\ cur.treeStatus = "NOT_OK" /\ cur.msgs = 1
    /\ Len(aggregatedObligations) > 0

\* C9: cancelling a run at any suspension point never makes that run send an
\* error message to the notification sink.
C9_CancelledRunSendsNoMessage ==
    /\ cur.cancelledAt # "" => cur.msgs = 0
    /\ prev.cancelledAt # "" => ~prev.notified

\* one run cancelled during its root fetch, the next during an obligation fetch
C9_Witness ==
    /\ prev.cancelledAt = "root" /\ cur.cancelledAt = "obligations"
    /\ cur.pc = "ended"

\* C10: licenseObligations requests are issued one at a time in flat-list
\* order, so at most one of them is outstanding in any state.
C10_OneObligationRequestAtATime ==
    LET obs == {r \in outstanding : r.kind = "obligations"}
        ids == FetchIds(cur.flat)
        calls == ObligationCalls(cur)
    IN /\ Cardinality(obs) <= 1
       /\ Len(calls) <= Len(ids)
       /\ \A k \in 1..Len(calls) : calls[k].id = ids[k]
       /\ cur.pc \in ObPcs => Len(calls) = Cardinality({k \in 1..cur.i : Truthy(ProjectIdOf(cur.flat[k]))})
       /\ obs # {} => cur.pc = "obFetch" /\ obs = {Request("obligations", calls[Len(calls)].id)}

\* the request of a later position is outstanding after earlier ones ended
C10_Witness ==
    /\ cur.pc = "obFetch" /\ cur.i >= 3
    /\ Cardinality(outstanding) = 1

\* ---------------------------------------------- claims on buildProjectPath
\* project p lists the project of that identifier among its linkedProjects
NamesChild(p, id) ==
    \E j \in 1..Len(p.linkedProjects) :
        p.linkedProjects[j].project = id \/ LastSegment(p.linkedProjects[j].project) = id

ParentsOf(all, id) == {k \in 1..Len(all) : NamesChild(all[k], id)}

\* the chain of positions from position k up to its top ancestor, <<>> once
\* the fuel is used up
RECURSIVE ChainUp(_, _, _)
ChainUp(all, k, fuel) ==
    LET ps == ParentsOf(all, ProjectIdOf(all[k]))
    IN IF ps = {} THEN <<k>>
       ELSE IF fuel = 0 THEN <<>>
       ELSE LET up == ChainUp(all, CHOOSE x \in ps : TRUE, fuel - 1)
            IN IF up = <<>> THEN <<>> ELSE up \o <<k>>

\* every reference names a project, no project has two parents, no cycle
StrictHierarchy(all) ==
    /\ \A k \in 1..Len(all) : \A j \in 1..Len(all[k].linkedProjects) :
          all[k].linkedProjects[j].project # Undefined
    /\ \A k \in 1..Len(all) : Cardinality(ParentsOf(all, ProjectIdOf(all[k]))) <= 1
    /\ \A k \in 1..Len(all) : ChainUp(all, k, Len(all)) # <<>>

PositionOf(all, id) == CHOOSE k \in 1..Len(all) : ProjectIdOf(all[k]) = id

\* C3: for a flat list whose parent relation is a strict hierarchy without
\* cycles, buildProjectPath(target, list) is the names of the chain from the
\* tree root down to the target joined by ' -> ': depth(target)+1 segments,
\* the first one the root's name.
C3_PathRunsFromRootToTarget ==
    (bpPc = "done" /\ StrictHierarchy(bpAll) /\ MapHas(bpAll, bpTarget)) =>
        LET chain == ChainUp(bpAll, PositionOf(bpAll, bpTarget), Len(bpAll))
        IN /\ Segments(bpResult) = Len(chain)
           /\ bpResult = JoinPath([k \in 1..Len(chain) |-> bpAll[chain[k]].name])

\* the requests of a run that went out to the network
SentCalls(run) == SelectSeq(run.calls, LAMBDA c : ~c.aborted)

\* C11: no remote request is issued while the session status is not
\* 'authenticated': a run starts only under that status, no request is
\* outstanding under another one, and a step that sends a request of the
\* running pipeline ends in a state whose status is 'authenticated'.
C11_NoRequestUnlessAuthenticated ==
    /\ [](status # "authenticated" => outstanding = {} /\ cur.pc \notin LivePcs)
    /\ [][(nRuns' # nRuns \/ Len(SentCalls(cur')) > Len(SentCalls(cur)))
            => status' = "authenticated" /\ outstanding' # {}]_vars

\* the status left 'authenticated' during an obligation fetch: the fetches of
\* the remaining positions were called with the aborted signal and not sent
C11_Witness ==
    /\ status # "authenticated"
    /\ cur.cancelledAt = "obligations"
    /\ Len(SentCalls(cur)) < Len(cur.calls)

\* the (project, title) pairs of the rows, in the order of the rows
RowKeys(rows) == [k \in 1..Len(rows) |-> <<rows[k].projectId, rows[k].obligationTitle>>]

\* the included (project, title) pairs of a run: positions of the flat list
\* in order, and for each position the titles in the order of its map
ExpectedKeys(run) ==
    LET OfPosition(k) ==
            LET id == ProjectIdOf(run.flat[k])
                obs == ObsOf(run.obMap, id)
                kept == SelectSeq(obs, LAMBDA e : Included(e, run.projectId, run.obMap))
            IN [j \in 1..Len(kept) |-> <<id, kept[j].title>>]
        F[k \in 0..Len(run.flat)] == IF k = 0 THEN <<>> ELSE F[k - 1] \o OfPosition(k)
    IN F[Len(run.flat)]

RECURSIVE NodeAt(_, _)
NodeAt(forest, addr) ==
    IF Len(addr) = 1 THEN forest[addr[1]]
    ELSE NodeAt(forest[addr[1]].embedded, Tail(addr))

RECURSIVE ValidAddress(_, _)
ValidAddress(forest, addr) ==
    /\ Len(addr) >= 1
    /\ addr[1] \in 1..Len(forest)
    /\ Len(addr) > 1 => ValidAddress(forest[addr[1]].embedded, Tail(addr))

RECURSIVE CountNodes(_)
CountNodes(forest) ==
    IF Len(forest) = 0 THEN 0
    ELSE 1 + CountNodes(forest[1].embedded) + CountNodes(Tail(forest))

Addresses(forest) ==
    LET n == CountNodes(forest)
    IN {a \in UNION {[1..d -> 1..n] : d \in 1..n} : ValidAddress(forest, a)}

\* a comes before b in pre-order: a is a proper prefix of b (b lies in the
\* nested subtree of a) or a branches off to an earlier sibling
PreOrderBefore(a, b) ==
    \/ Len(a) < Len(b) /\ \A k \in 1..Len(a) : a[k] = b[k]
    \/ \E k \in 1..Len(a) : /\ k <= Len(b)
                            /\ a[k] < b[k]
                            /\ \A j \in 1..(k - 1) : a[j] = b[j]

\* C13: the flat list has the root project at its first position and nowhere
\* else, and after it every node of the tree exactly once in pre-order: the
\* list is as long as the tree has nodes plus one, and the node at an address
\* stands at the position given by the number of addresses before it.
C13_FlatListIsRootThenPreOrder ==
    flPc = "done" =>
        LET addrs == Addresses(flLinked)
        IN /\ flFlat[1] = flRoot
           /\ \A k \in 2..Len(flFlat) : flFlat[k] # flRoot
           /\ Len(flFlat) = 1 + Cardinality(addrs)
           /\ \A a \in addrs :
                 flFlat[2 + Cardinality({b \in addrs : PreOrderBefore(b, a)})]
                     = NodeAt(flLinked, a)

\* a tree of three levels with a sibling after a nested subtree
C13_Witness ==
    /\ flPc = "done"
    /\ Len(flLinked) = 2
    /\ Len(flLinked[1].embedded) >= 1
    /\ Len(flLinked[1].embedded[1].embedded) = 1
    /\ Len(flFlat) = 5

\* C14: for a project of the list that no project of the list names in its
\* linkedProjects, buildProjectPath returns (the call ends, and its result
\* is) that project's own name as the single segment; for an identifier that
\* matches no project of the list it returns the empty path.
C14_ParentlessOwnNameUnknownEmpty ==
    /\ (MapHas(bpAll, bpTarget) /\ ParentsOf(bpAll, bpTarget) = {}) =>
          /\ bpPc # "spin"
          /\ bpPc = "done" => bpResult = <<MapGet(bpAll, bpTarget).name>>
    /\ ~MapHas(bpAll, bpTarget) =>
          /\ bpPc # "spin"
          /\ bpPc = "done" => bpResult = <<>>

\* the positions reached from the positions S by going up to parents, in at
\* most fuel steps
RECURSIVE UpFrom(_, _, _)
UpFrom(all, S, fuel) ==
    LET up == UNION {ParentsOf(all, ProjectIdOf(all[j])) : j \in S}
    IN IF fuel = 0 \/ up = {} THEN {} ELSE up \cup UpFrom(all, up, fuel - 1)

\* no project is its own ancestor
AcyclicParents(all) == \A k \in 1..Len(all) : k \notin UpFrom(all, {k}, Len(all))

\* C17: for a flat list whose parent relation is acyclic, with or without
\* references that carry no project identifier, and for every target
\* identifier, the loop of buildProjectPath does not go on for ever.
C17_TerminatesOnAcyclicLists == AcyclicParents(bpAll) => bpPc # "spin"

\* the flat list of the run has a project without id field and self link
HasUnidentified(flat) == \E k \in 1..Len(flat) : ~Truthy(ProjectIdOf(flat[k]))

\* C15: a project of the flat list with no resolvable identifier causes no
\* licenseObligations request and has no row in the result, while the other
\* projects are processed as usual: a run that comes to its end has called
\* licenseObligations for each of them, in the order of the list, and a run
\* that completes has written a row for each of their included obligations.
C15_UnidentifiedProjectIsSkipped ==
    /\ \A k \in 1..Len(cur.calls) : Truthy(cur.calls[k].id)
    /\ \A r \in 1..Len(aggregatedObligations) : Truthy(aggregatedObligations[r].projectId)
    /\ (HasUnidentified(cur.flat) /\ cur.pc = "ended" /\ cur.outcome # "fatal") =>
          [k \in 1..Len(ObligationCalls(cur)) |-> ObligationCalls(cur)[k].id]
              = FetchIds(cur.flat)
    /\ (HasUnidentified(cur.flat) /\ cur.outcome = "success") =>
          \A k \in 1..Len(cur.flat) :
              LET id == ProjectIdOf(cur.flat[k])
                  obs == ObsOf(cur.obMap, id)
              IN Truthy(id) =>
                    \A j \in 1..Len(obs) :
                        Included(obs[j], cur.projectId, cur.obMap) =>
                            BufferRowsFor(id, obs[j].title) # {}

\* a run over a list with such a project completed and wrote rows of another
\* linked project
C15_Witness ==
    /\ HasUnidentified(cur.flat)
    /\ cur.outcome = "success"
    /\ \E r \in 1..Len(aggregatedObligations) :
          aggregatedObligations[r].projectId = <<"a">>

\* C16: the steps of a run happen in a fixed order.  The first call is the
\* root fetch; the tree fetch is issued only when the root fetch has been
\* answered with success; a licenseObligations fetch is issued only when the
\* tree fetch has been answered with success; and the result buffer is
\* written only when licenseObligations has been called for every
\* identified project of the flat list up to the last one and none of these
\* requests is still outstanding.
C16_StepsInFixedOrder ==
    /\ Len(cur.calls) >= 1 => cur.calls[1].kind = "root"
    /\ Len(cur.calls) >= 2 =>
          /\ cur.calls[2].kind = "tree"
          /\ cur.rootStatus = "OK"
          /\ Request("root", cur.projectId) \notin outstanding
    /\ \A k \in 3..Len(cur.calls) :
          /\ cur.calls[k].kind = "obligations"
          /\ cur.treeStatus = "OK"
          /\ Request("tree", cur.projectId) \notin outstanding
    /\ cur.wrote =>
          /\ cur.pc = "ended"
          /\ cur.rootStatus = "OK" /\ cur.treeStatus = "OK"
          /\ [k \in 1..Len(ObligationCalls(cur)) |-> ObligationCalls(cur)[k].id]
                = FetchIds(cur.flat)
          /\ outstanding = {}

\* a run of all four steps: root, tree, two obligation fetches, the write
C16_Witness ==
    /\ cur.wrote /\ cur.outcome = "success"
    /\ Len(cur.calls) >= 4
    /\ Len(aggregatedObligations) >= 1

\* the most recently started run completed successfully and nothing is in
\* flight
LatestRunSucceeded ==
    phase = "mounted" /\ cur.outcome = "success" /\ cur.pc = "ended" /\ outstanding = {}

\* C18 as stated: when no run is in flight and the most recently started run
\* completed successfully, the result buffer holds exactly the aggregation
\* computed by that run, and that run was for the current project id.
C18_BufferIsLatestRunForCurrentId ==
    LatestRunSucceeded =>
        /\ aggregatedObligations = Aggregate(1, cur.projectId, cur.flat, cur.obMap).rows
        /\ cur.projectId = projectId

\* C18 amended: when no run is in flight and the most recently started run
\* completed successfully, the result buffer holds exactly the aggregation
\* computed by that run, with no row of an earlier run left; the run was for
\* the current project id whenever the session is authenticated.
C18_BufferIsLatestRunWhileAuthenticated ==
    LatestRunSucceeded =>
        /\ aggregatedObligations = Aggregate(1, cur.projectId, cur.flat, cur.obMap).rows
        /\ status = "authenticated" => cur.projectId = projectId

\* a superseded run wrote its rows when it was cancelled in the obligation
\* loop, and the run after it completed
C18_Witness ==
    /\ LatestRunSucceeded /\ status = "authenticated"
    /\ prev.wrote /\ prev.cancelledAt = "obligations"
    /\ Len(aggregatedObligations) >= 1

\* C19: every started run reaches its end (success, fatal failure or
\* cancellation) once its requests are answered or aborted: no run comes to
\* a point from which it never ends; and once the started runs have ended and
\* none is in flight the processing flag is false.
C19_RunsEndAndFlagFalls ==
    /\ cur.pc # "hung" /\ prev.pc # "hung"
    /\ (phase = "mounted" /\ nRuns > 0 /\ cur.pc = "ended" /\ outstanding = {})
          => showProcessing = FALSE

\* C20: AuthProvider returns its children if and only if the status is
\* 'authenticated', the spinner while it is 'loading' and nothing while it is
\* 'unauthenticated'; and whenever the status is 'unauthenticated' its effect
\* calls signIn with the current path as callback: once the effect has run
\* the last call carries the current path, and a step that calls signIn is
\* taken under that status with the path of that moment.
C20_ChildrenIffAuthenticatedElseSignIn ==
    /\ [](/\ apOutput = "children" <=> apStatus = "authenticated"
          /\ apStatus = "loading" => apOutput = "spinner"
          /\ apStatus = "unauthenticated" => apOutput = "null"
          /\ (apStatus = "unauthenticated" /\ ~apEffectDue) =>
                apSignIns > 0 /\ apCallback = apPathname)
    /\ [][apSignIns' # apSignIns =>
            /\ apStatus = "unauthenticated"
            /\ apSignIns' = apSignIns + 1
            /\ apCallback' = apPathname]_vars

\* unauthenticated, on another path than at the first redirect, and the
\* effect has called signIn again
C20_Witness ==
    /\ apStatus = "unauthenticated" /\ ~apEffectDue
    /\ apOutput = "null"
    /\ apSignIns = 2
    /\ apCallback = <<"projects", "p1">>

====
